---- MODULE Spec2Model ----
(***************************************************************************)
(* Model of wireframe_sequence/fetch_figma.py: the recursive tree reducer  *)
(* extract_frames and the driver main.                                     *)
(*                                                                         *)
(* Python values are encoded as follows.  A dict is a function whose       *)
(* domain is its set of keys (strings); a list is a sequence; None and str *)
(* are tagged records, so that any two Python values can be compared.      *)
(* requests.get, response.json and json.dump are library calls: a response *)
(* is modelled by its status code and the value response.json() returns,   *)
(* and the output file by the value handed to json.dump.                   *)
(***************************************************************************)
EXTENDS Integers, Sequences, FiniteSets, TLC

VARIABLES pc, argv, OUTPUT_FILE, requests, response, figma_data, todo,
          simplified, files, stdout, exit_status, node, extracted, rpc, depth

vars == <<pc, argv, OUTPUT_FILE, requests, response, figma_data, todo,
          simplified, files, stdout, exit_status, node, extracted, rpc, depth>>

mainVars == <<pc, argv, OUTPUT_FILE, requests, response, figma_data, todo,
              simplified, files, stdout, exit_status>>

-----------------------------------------------------------------------------
(* Python values *)

None == [pyNone |-> TRUE]

Str(s) == [pyStr |-> s]

EmptyDict == [k \in {} |-> k]

\* dict.get(key, default)
Get(d, key, default) == IF key \in DOMAIN d THEN d[key] ELSE default

\* truth value of a dict or None, as tested by "if extracted:"
Truthy(v) == IF v = None THEN FALSE ELSE DOMAIN v # {}

-----------------------------------------------------------------------------
(* Bounds of the input space *)

\* largest number of nodes of an input tree built over CoreHeaders
MaxNodes == 4

\* largest number of nodes of an input tree built over all Headers
MaxRichNodes == 2

\* largest number of command-line arguments after the program name
MaxArgs == 3

-----------------------------------------------------------------------------
(* extract_frames *)

KeptTypes == {Str("FRAME"), Str("COMPONENT"), Str("INSTANCE"), Str("TEXT")}

RECURSIVE extract_frames(_)
RECURSIVE ExtractChildren(_, _)

\* the two loops "for child in node['children']: extracted = extract_frames(child);
\* if extracted: <list>.append(extracted)", run on the remaining children with
\* the list built so far
\* variant: each result is put in front of the list
ExtractChildren_Reversed(children, acc) ==
    IF children = <<>>
    THEN acc
    ELSE LET ex == extract_frames(Head(children))
         IN  ExtractChildren(Tail(children),
                             IF Truthy(ex) THEN <<ex>> \o acc ELSE acc)

ExtractChildren(children, acc) ==
    IF children = <<>>
    THEN acc
    ELSE LET ex == extract_frames(Head(children))
         IN  ExtractChildren(Tail(children),
                             IF Truthy(ex) THEN Append(acc, ex) ELSE acc)

\* variant: style read without the {} default
TextFields_NullStyle(n, node_type) ==
    IF node_type = Str("TEXT")
    THEN [characters |-> Get(n, "characters", None),
          style |-> Get(n, "style", None)]
    ELSE EmptyDict

\* the keys added to simplified_node for a text layer
TextFields(n, node_type) ==
    IF node_type = Str("TEXT")
    THEN [characters |-> Get(n, "characters", None),
          style |-> Get(n, "style", EmptyDict)]
    ELSE EmptyDict

\* variant: name read with an empty-string default
SimplifiedNode_EmptyName(n, node_type) ==
    [name |-> Get(n, "name", Str("")),
     type |-> node_type,
     absoluteBoundingBox |-> Get(n, "absoluteBoundingBox", None),
     children |-> <<>>] @@ TextFields(n, node_type)

\* simplified_node as built before the recursion into the children
SimplifiedNode(n, node_type) ==
    [name |-> Get(n, "name", None),
     type |-> node_type,
     absoluteBoundingBox |-> Get(n, "absoluteBoundingBox", None),
     children |-> <<>>] @@ TextFields(n, node_type)

\* variant: a kept node whose children list ends up empty is dropped
KeptNode_DropEmpty(n, node_type) ==
    LET simplified_node == SimplifiedNode(n, node_type)
        children == IF "children" \in DOMAIN n
                    THEN ExtractChildren(n["children"], <<>>) ELSE <<>>
    IN  IF children # <<>>
        THEN [simplified_node EXCEPT !["children"] = children]
        ELSE None

\* lines 12-30: the kept node with the results of its children
KeptNode(n, node_type) ==
    LET simplified_node == SimplifiedNode(n, node_type)
    IN  IF "children" \in DOMAIN n
        THEN [simplified_node EXCEPT
                 !["children"] = ExtractChildren(n["children"], <<>>)]
        ELSE simplified_node

\* variant: a wrapper around a single result is elided
Wrapper_Splice(children) ==
    IF children # <<>>
    THEN IF Len(children) = 1 THEN children[1] ELSE [children |-> children]
    ELSE None

\* variant: the wrapper is returned without the test "if children:"
Wrapper_Empty(children) == [children |-> children]

\* lines 37-39: the result of a node that is not kept, from the list of the
\* results of its children
Wrapper(children) ==
    IF children # <<>> THEN [children |-> children] ELSE None

extract_frames(n) ==
    LET node_type == Get(n, "type", None)
    IN  IF node_type \in KeptTypes
        THEN KeptNode(n, node_type)
        ELSE IF "children" \in DOMAIN n
        THEN Wrapper(ExtractChildren(n["children"], <<>>))
        ELSE None

-----------------------------------------------------------------------------
(* Input trees.  The trees follow the schema of the API: every node is a    *)
(* dict and its children field, when present, is a list of nodes.          *)

BBox == [x |-> 0, y |-> 0, width |-> 100, height |-> 50]

Style == [fontSize |-> 14]

\* the non-children fields of the nodes used to build the larger trees
CoreHeaders ==
    { [type |-> Str("FRAME"), name |-> Str("Home"), absoluteBoundingBox |-> BBox],
      [type |-> Str("TEXT"), name |-> Str("Label"), characters |-> Str("Hello"),
       style |-> Style],
      [type |-> Str("GROUP"), name |-> Str("G")] }

\* the non-children fields of the nodes used to build the small trees
Headers ==
    CoreHeaders \cup
    { [type |-> Str("FRAME")],
      [type |-> Str("COMPONENT"), name |-> Str("Button")],
      [type |-> Str("INSTANCE"), name |-> Str("Button"), absoluteBoundingBox |-> None],
      [type |-> Str("TEXT")],
      [type |-> Str("TEXT"), name |-> None, characters |-> None, style |-> None],
      [type |-> Str("TEXT"), characters |-> Str("Hi"), style |-> EmptyDict],
      [type |-> Str("FRAME"), name |-> Str("Card"), characters |-> Str("x"),
       style |-> Style],
      [type |-> Str("VECTOR"), characters |-> Str("x"), style |-> Style],
      [type |-> None, name |-> Str("untyped")],
      EmptyDict }

RECURSIVE NodeCount(_)
RECURSIVE ForestCount(_)

NodeCount(n) == 1 + (IF "children" \in DOMAIN n THEN ForestCount(n["children"]) ELSE 0)

ForestCount(f) == IF f = <<>> THEN 0 ELSE NodeCount(Head(f)) + ForestCount(Tail(f))

RECURSIVE Forests(_, _)

\* the trees of at most k nodes with fields from H; a node has no children
\* field or a children list, possibly empty
TreesUpTo(H, k) ==
    IF k = 0 THEN {}
    ELSE H \cup { h @@ [children |-> f] : h \in H, f \in Forests(H, k - 1) }

\* the lists of trees with at most k nodes in all
Forests(H, k) ==
    {<<>>} \cup
    UNION { { <<t>> \o f : f \in Forests(H, k - NodeCount(t)) } : t \in TreesUpTo(H, k) }

Nodes == TreesUpTo(CoreHeaders, MaxNodes) \cup TreesUpTo(Headers, MaxRichNodes)

-----------------------------------------------------------------------------
(* The calls of extract_frames *)

\* extract_frames is entered with some node as argument
InitReduce ==
    /\ node \in Nodes
    /\ extracted = None
    /\ rpc = "call"
    /\ depth = 0
    /\ pc = "idle"
    /\ argv = <<>>
    /\ OUTPUT_FILE = None
    /\ requests = <<>>
    /\ response = None
    /\ figma_data = None
    /\ todo = <<>>
    /\ simplified = <<>>
    /\ files = EmptyDict
    /\ stdout = <<>>
    /\ exit_status = -1

\* the call returns
Return ==
    /\ rpc = "call"
    /\ extracted' = extract_frames(node)
    /\ rpc' = "return"
    /\ UNCHANGED <<node, depth, mainVars>>

\* the recursive call on one child of the node
Recurse ==
    /\ rpc = "call"
    /\ "children" \in DOMAIN node
    /\ \E i \in 1..Len(node["children"]) :
          node' = node["children"][i]
    /\ depth' = depth + 1
    /\ UNCHANGED <<extracted, rpc, mainVars>>

NextReduce == Return \/ Recurse

SpecReduce == InitReduce /\ [][NextReduce]_vars

-----------------------------------------------------------------------------
(* main *)

DefaultOutput == Str("prismforge_simplified.json")

UsageLine ==
    Str("Usage: python fetch_figma.py <FIGMA_TOKEN> <FIGMA_FILE_KEY> [OUTPUT_FILENAME]")

ErrorLine(r) ==
    [line |-> "Error fetching Figma file: ", status_code |-> r.status_code, text |-> r.body]

SavedLine(path) == [line |-> "Simplified JSON saved to ", path |-> path]

\* sys.argv: the program name followed by the first n of these arguments
Args == <<Str("figd_token"), Str("FileKey1"), Str("out.json"), Str("extra")>>

ArgvOf(n) == <<Str("fetch_figma.py")>> \o [i \in 1..n |-> Args[((i - 1) % Len(Args)) + 1]]

\* a response body that is not JSON
NotJson == Str("<html>")

\* the JSON body of an error answer of the API
ErrBody == [status |-> Str("403"), err |-> Str("Invalid token")]

DocHeader == [id |-> Str("0:0"), name |-> Str("Document"), type |-> Str("DOCUMENT")]

\* the lists of top-level children: the document is a tree of at most MaxNodes
\* nodes over CoreHeaders, or of at most MaxRichNodes nodes over Headers
DocForests == Forests(CoreHeaders, MaxNodes - 1) \cup Forests(Headers, MaxRichNodes - 1)

\* the values response.json() can return for a file
FigmaFiles ==
    { EmptyDict,
      [name |-> Str("Wireframes")],
      [name |-> Str("Wireframes"), document |-> EmptyDict],
      [name |-> Str("Wireframes"), document |-> DocHeader] }
    \cup { [name |-> Str("Wireframes"), document |-> DocHeader @@ [children |-> f]] :
              f \in DocForests }

StatusCodes == {200, 201, 403, 404, 500}

Responses ==
    { [status_code |-> 200, body |-> b] : b \in FigmaFiles \cup {NotJson, ErrBody} }
    \cup { [status_code |-> s, body |-> b] :
              s \in StatusCodes \ {200},
              b \in {NotJson, ErrBody,
                     [name |-> Str("Wireframes"),
                      document |-> DocHeader @@ [children |-> <<[type |-> Str("FRAME")]>>]]} }

\* line 43
TooFewArgs(a) == Len(a) < 3

\* variant: the output path read one position too early
OutputFile_OffByOne(a) == IF Len(a) > 3 THEN a[3] ELSE DefaultOutput

\* line 49
OutputFile(a) == IF Len(a) > 3 THEN a[4] ELSE DefaultOutput

\* variant: only the 4xx and 5xx answers are errors
IsError_ClientServer(r) == r.status_code >= 400

\* line 56
IsError(r) == r.status_code # 200

Init ==
    /\ pc = "start"
    /\ \E n \in 0..MaxArgs : argv = ArgvOf(n)
    /\ OUTPUT_FILE = None
    /\ requests = <<>>
    /\ response = None
    /\ figma_data = None
    /\ todo = <<>>
    /\ simplified = <<>>
    /\ files = EmptyDict
    /\ stdout = <<>>
    /\ exit_status = -1
    /\ node = None
    /\ extracted = None
    /\ rpc = "idle"
    /\ depth = 0

\* lines 43-45: too few arguments
Usage ==
    /\ pc = "start"
    /\ TooFewArgs(argv)
    /\ stdout' = Append(stdout, UsageLine)
    /\ exit_status' = 1
    /\ pc' = "exit"
    /\ UNCHANGED <<argv, OUTPUT_FILE, requests, response, figma_data, todo,
                   simplified, files, node, extracted, rpc, depth>>

\* lines 47-52
ReadArgs ==
    /\ pc = "start"
    /\ ~TooFewArgs(argv)
    /\ OUTPUT_FILE' = OutputFile(argv)
    /\ pc' = "fetch"
    /\ UNCHANGED <<argv, requests, response, figma_data, todo, simplified,
                   files, stdout, exit_status, node, extracted, rpc, depth>>

\* line 55: the request is sent and the API answers
Fetch ==
    /\ pc = "fetch"
    /\ requests' = Append(requests, [url |-> <<"https://api.figma.com/v1/files/", argv[3]>>,
                                     headers |-> [X_Figma_Token |-> argv[2]]])
    /\ response' \in Responses
    /\ pc' = "status"
    /\ UNCHANGED <<argv, OUTPUT_FILE, figma_data, todo, simplified, files,
                   stdout, exit_status, node, extracted, rpc, depth>>

\* lines 56-58
FetchError ==
    /\ pc = "status"
    /\ IsError(response)
    /\ stdout' = Append(stdout, ErrorLine(response))
    /\ exit_status' = 1
    /\ pc' = "exit"
    /\ UNCHANGED <<argv, OUTPUT_FILE, requests, response, figma_data, todo,
                   simplified, files, node, extracted, rpc, depth>>

\* line 60 raises when the body is not JSON: the exception ends the run
ParseFail ==
    /\ pc = "status"
    /\ ~IsError(response)
    /\ response.body = NotJson
    /\ exit_status' = 1
    /\ pc' = "exit"
    /\ UNCHANGED <<argv, OUTPUT_FILE, requests, response, figma_data, todo,
                   simplified, files, stdout, node, extracted, rpc, depth>>

\* the list the loop of lines 64-65 runs over
TopLevel(data) ==
    LET document == Get(data, "document", EmptyDict)
    IN  IF "children" \in DOMAIN document THEN document["children"] ELSE <<>>

\* lines 60-64
ParseJson ==
    /\ pc = "status"
    /\ ~IsError(response)
    /\ response.body # NotJson
    /\ figma_data' = response.body
    /\ simplified' = <<>>
    /\ todo' = TopLevel(figma_data')
    /\ pc' = "loop"
    /\ UNCHANGED <<argv, OUTPUT_FILE, requests, response, files, stdout,
                   exit_status, node, extracted, rpc, depth>>

\* variant: the result is appended without the test "if frame_data:"
LoopIter_AppendAll ==
    /\ pc = "loop"
    /\ todo # <<>>
    /\ node' = Head(todo)
    /\ extracted' = extract_frames(node')
    /\ rpc' = "return"
    /\ simplified' = Append(simplified, extracted')
    /\ todo' = Tail(todo)
    /\ UNCHANGED <<pc, argv, OUTPUT_FILE, requests, response, figma_data,
                   files, stdout, exit_status, depth>>

\* variant: the result is inserted at the front of the list
LoopIter_Prepend ==
    /\ pc = "loop"
    /\ todo # <<>>
    /\ node' = Head(todo)
    /\ extracted' = extract_frames(node')
    /\ rpc' = "return"
    /\ simplified' = IF Truthy(extracted') THEN <<extracted'>> \o simplified
                     ELSE simplified
    /\ todo' = Tail(todo)
    /\ UNCHANGED <<pc, argv, OUTPUT_FILE, requests, response, figma_data,
                   files, stdout, exit_status, depth>>

\* lines 65-68: one iteration of the loop
LoopIter ==
    /\ pc = "loop"
    /\ todo # <<>>
    /\ node' = Head(todo)
    /\ extracted' = extract_frames(node')
    /\ rpc' = "return"
    /\ simplified' = IF Truthy(extracted') THEN Append(simplified, extracted')
                     ELSE simplified
    /\ todo' = Tail(todo)
    /\ UNCHANGED <<pc, argv, OUTPUT_FILE, requests, response, figma_data,
                   files, stdout, exit_status, depth>>

\* lines 71-72: the file is opened and the list is written to it; open and
\* json.dump are library calls taken to succeed
Save ==
    /\ pc = "loop"
    /\ todo = <<>>
    /\ files' = (OUTPUT_FILE.pyStr :> simplified) @@ files
    /\ pc' = "saved"
    /\ UNCHANGED <<argv, OUTPUT_FILE, requests, response, figma_data, todo,
                   simplified, stdout, exit_status, node, extracted, rpc, depth>>

\* line 74 and the end of the run
PrintSaved ==
    /\ pc = "saved"
    /\ stdout' = Append(stdout, SavedLine(OUTPUT_FILE))
    /\ exit_status' = 0
    /\ pc' = "exit"
    /\ UNCHANGED <<argv, OUTPUT_FILE, requests, response, figma_data, todo,
                   simplified, files, node, extracted, rpc, depth>>

Next ==
    \/ Usage
    \/ ReadArgs
    \/ Fetch
    \/ FetchError
    \/ ParseFail
    \/ ParseJson
    \/ LoopIter
    \/ Save
    \/ PrintSaved

Spec == Init /\ [][Next]_vars

-----------------------------------------------------------------------------
(* What the specification says of an input tree, stated without the reducer *)

KeptSet == {Str("FRAME"), Str("COMPONENT"), Str("INSTANCE"), Str("TEXT")}

\* the field k of a node, None when the node has no such field
Field(n, k) == IF k \in DOMAIN n THEN n[k] ELSE None

IsKept(n) == "type" \in DOMAIN n /\ n["type"] \in KeptSet

Kids(n) == IF "children" \in DOMAIN n THEN n["children"] ELSE <<>>

RECURSIVE HasKeptDescendant(_)

HasKeptDescendant(n) ==
    \E i \in 1..Len(Kids(n)) : IsKept(Kids(n)[i]) \/ HasKeptDescendant(Kids(n)[i])

\* the node is kept or has a kept descendant
Yields(n) == IsKept(n) \/ HasKeptDescendant(n)

\* the nodes of a list that yield a result, in their order
Yielding(ns) == SelectSeq(ns, Yields)

IsWrapper(out) == out # None /\ DOMAIN out = {"children"}

RECURSIVE ReductionOf(_, _)

\* out stands for the yielding node n: a kept node with n's type and name, or
\* a wrapper with the children field only, and its children stand one for one,
\* in order, for the yielding children of n
ReductionOf(out, n) ==
    /\ out # None
    /\ "children" \in DOMAIN out
    /\ IF IsKept(n)
       THEN /\ {"type", "name"} \subseteq DOMAIN out
            /\ out["type"] = n["type"]
            /\ out["name"] = Field(n, "name")
       ELSE DOMAIN out = {"children"}
    /\ Len(out["children"]) = Len(Yielding(Kids(n)))
    /\ \A i \in 1..Len(out["children"]) :
          ReductionOf(out["children"][i], Yielding(Kids(n))[i])

\* outs stand one for one, in order, for the yielding nodes of ns
ReductionsOf(outs, ns) ==
    /\ Len(outs) = Len(Yielding(ns))
    /\ \A i \in 1..Len(outs) : ReductionOf(outs[i], Yielding(ns)[i])

RECURSIVE NoPlaceholder(_)

\* no children list of out, at any depth, holds None, an empty dict or a
\* wrapper with an empty children list
NoPlaceholder(out) ==
    \A i \in 1..Len(Kids(out)) :
       LET c == Kids(out)[i]
       IN  /\ c # None
           /\ c # EmptyDict
           /\ ~(DOMAIN c = {"children"} /\ c["children"] = <<>>)
           /\ NoPlaceholder(c)

RECURSIVE OnlyYielding(_, _)

\* at every depth the children list of out has one entry per yielding child
OnlyYielding(out, n) ==
    /\ Len(Kids(out)) = Len(Yielding(Kids(n)))
    /\ \A i \in 1..Len(Kids(out)) : OnlyYielding(Kids(out)[i], Yielding(Kids(n))[i])

RECURSIVE WellFormed(_)

\* out and every node below it is a kept node or a wrapper with a non-empty
\* children list
WellFormed(out) ==
    /\ out # None
    /\ "children" \in DOMAIN out
    /\ \/ "type" \in DOMAIN out /\ out["type"] \in KeptSet
       \/ DOMAIN out = {"children"} /\ out["children"] # <<>>
    /\ \A i \in 1..Len(out["children"]) : WellFormed(out["children"][i])

RECURSIVE KeptSeq(_, _)
RECURSIVE KeptSeqOfList(_, _)

\* the kept nodes of the tree n in pre-order, each as <<type, name, depth>>,
\* the root being at depth d
KeptSeq(n, d) ==
    (IF IsKept(n) THEN << <<n["type"], Field(n, "name"), d>> >> ELSE <<>>)
    \o KeptSeqOfList(Kids(n), d + 1)

KeptSeqOfList(ns, d) ==
    IF ns = <<>> THEN <<>> ELSE KeptSeq(Head(ns), d) \o KeptSeqOfList(Tail(ns), d)

\* the top-level children of the document of a parsed answer
DocumentChildren(data) ==
    IF "document" \in DOMAIN data THEN Kids(data["document"]) ELSE <<>>

-----------------------------------------------------------------------------
(* The claims *)

\* C1: a node of type FRAME, COMPONENT, INSTANCE or TEXT, at any depth and with
\* any children, is returned as a node with the same type and the same name,
\* the name being None when the input has no name field.
C1_KeptNodeKeepsTypeAndName ==
    (rpc = "return" /\ IsKept(node)) =>
       /\ extracted # None
       /\ {"type", "name"} \subseteq DOMAIN extracted
       /\ extracted["type"] = node["type"]
       /\ extracted["name"] = Field(node, "name")

C1_Witness ==
    /\ rpc = "return"
    /\ depth >= 1
    /\ IsKept(node)
    /\ "name" \notin DOMAIN node
    /\ "children" \in DOMAIN node
    /\ extracted # None
    /\ extracted["name"] = None

\* C2: a node that is not kept and has a kept descendant is returned as a
\* wrapper with the children field only; the list is not empty and holds, in
\* the original order, the results of the children that yield one; the result
\* is never the bare descendant.
C2_WrapperOfYieldingChildren ==
    (rpc = "return" /\ ~IsKept(node) /\ HasKeptDescendant(node)) =>
       /\ IsWrapper(extracted)
       /\ extracted["children"] # <<>>
       /\ ReductionsOf(extracted["children"], Kids(node))

C2_Witness ==
    /\ rpc = "return"
    /\ ~IsKept(node)
    /\ Len(Kids(node)) = 3
    /\ IsWrapper(extracted)
    /\ Len(extracted["children"]) = 2
    /\ extracted["children"][1]["type"] = Str("FRAME")
    /\ extracted["children"][2]["type"] = Str("TEXT")

\* C3: a node that is not kept and has no kept descendant (no children field,
\* an empty children list, or children that yield nothing) is returned as
\* None, and no ancestor's result holds an entry for it: no None, no empty
\* dict and no empty wrapper sits in a children list at any depth.
C3_NothingForNodesWithoutKept ==
    rpc = "return" =>
       IF ~Yields(node)
       THEN extracted = None
       ELSE extracted # None => NoPlaceholder(extracted) /\ OnlyYielding(extracted, node)

C3_Witness ==
    /\ rpc = "return"
    /\ depth >= 1
    /\ ~IsKept(node)
    /\ Kids(node) # <<>>
    /\ extracted = None

\* C5: the result of a TEXT node carries the characters of the input (None
\* without the field) and the style of the input ({} without the field); the
\* result of a FRAME, COMPONENT or INSTANCE node carries neither field.
C5_TextFieldsOnlyOnText ==
    rpc = "return" =>
       /\ Field(node, "type") = Str("TEXT") =>
             /\ extracted # None
             /\ {"characters", "style"} \subseteq DOMAIN extracted
             /\ extracted["characters"] = Field(node, "characters")
             /\ extracted["style"] =
                   IF "style" \in DOMAIN node THEN node["style"] ELSE EmptyDict
       /\ Field(node, "type") \in {Str("FRAME"), Str("COMPONENT"), Str("INSTANCE")} =>
             /\ extracted # None
             /\ "characters" \notin DOMAIN extracted
             /\ "style" \notin DOMAIN extracted

C5_Witness ==
    /\ rpc = "return"
    /\ Field(node, "type") = Str("TEXT")
    /\ "style" \notin DOMAIN node
    /\ "characters" \notin DOMAIN node
    /\ extracted # None
    /\ extracted["style"] = EmptyDict
    /\ extracted["characters"] = None

\* C9: a kept node is always returned; its children list holds, in the
\* original order, the results (kept nodes and wrappers) of the children that
\* yield one, and is empty when no child yields one.
C9_KeptNodeAlwaysReturned ==
    (rpc = "return" /\ IsKept(node)) =>
       /\ extracted # None
       /\ "children" \in DOMAIN extracted
       /\ ReductionsOf(extracted["children"], Kids(node))
       /\ (\A i \in 1..Len(Kids(node)) : ~Yields(Kids(node)[i])) =>
             extracted["children"] = <<>>

C9_Witness ==
    /\ rpc = "return"
    /\ IsKept(node)
    /\ Kids(node) # <<>>
    /\ \A i \in 1..Len(Kids(node)) : ~Yields(Kids(node)[i])
    /\ extracted # None
    /\ extracted["children"] = <<>>

\* C10: the kept nodes of the result are the kept nodes of the input: the same
\* (type, name) pairs in the same pre-order, each at the depth it has in the
\* input.
C10_KeptNodesKeepOrderAndDepth ==
    rpc = "return" => KeptSeq(extracted, 0) = KeptSeq(node, 0)

C10_Witness ==
    /\ rpc = "return"
    /\ ~IsKept(node)
    /\ Len(KeptSeq(node, 0)) >= 2
    /\ \E i \in 1..Len(KeptSeq(node, 0)) : KeptSeq(node, 0)[i][3] = 2
    /\ KeptSeq(extracted, 0) = KeptSeq(node, 0)

\* C4: in the output of every run, every node at every depth, the entries of
\* the top-level array included, is a kept node or a wrapper whose children
\* list is not empty; no children list holds an empty wrapper or None.
C4_OutputNodesKeptOrNonEmptyWrapper ==
    /\ \A i \in 1..Len(simplified) : WellFormed(simplified[i])
    /\ \A path \in DOMAIN files :
          \A i \in 1..Len(files[path]) : WellFormed(files[path][i])

C4_Witness ==
    /\ pc = "exit"
    /\ \E path \in DOMAIN files :
          /\ Len(files[path]) >= 1
          /\ Len(files[path]) < Len(DocumentChildren(figma_data))
          /\ \E i \in 1..Len(files[path]) :
                /\ IsWrapper(files[path][i])
                /\ IsKept(files[path][i]["children"][1])

\* C6: after an answer with a status other than 200 the run prints the error
\* line with that status and ends with exit status 1, and no file is written;
\* a file is written only once an answer with status 200 has been seen.
C6_NoFileWithoutStatus200 ==
    /\ (response # None /\ response.status_code # 200) =>
          /\ files = EmptyDict
          /\ pc \in {"status", "exit"}
          /\ pc = "exit" =>
                /\ exit_status = 1
                /\ Len(stdout) = 1
                /\ stdout[1]["line"] = "Error fetching Figma file: "
                /\ stdout[1]["status_code"] = response.status_code
                /\ stdout[1]["text"] = response.body
    /\ files # EmptyDict => (response # None /\ response.status_code = 200)

C6_Witness ==
    /\ pc = "exit"
    /\ response # None
    /\ response.status_code = 403
    /\ exit_status = 1
    /\ files = EmptyDict
    /\ Len(stdout) = 1

\* C7: after an answer with status 200 the array written is the list of the
\* results of the top-level children of the document that yield one, in the
\* original order; an answer without a document field, or whose document has
\* no children field, is no error: the empty array is written and the run
\* ends with status 0.
C7_OutputIsTopLevelReductions ==
    /\ pc \in {"saved", "exit"} /\ figma_data # None =>
          /\ DOMAIN files = {OUTPUT_FILE.pyStr}
          /\ ReductionsOf(files[OUTPUT_FILE.pyStr], DocumentChildren(figma_data))
    /\ (/\ figma_data # None
        /\ "document" \notin DOMAIN figma_data
              \/ "children" \notin DOMAIN figma_data["document"]) =>
          /\ pc \in {"loop", "saved", "exit"}
          /\ todo = <<>>
          /\ simplified = <<>>
          /\ pc = "loop" => ENABLED Save
          /\ pc = "saved" => files[OUTPUT_FILE.pyStr] = <<>> /\ ENABLED PrintSaved
          /\ pc = "exit" => files[OUTPUT_FILE.pyStr] = <<>> /\ exit_status = 0

C7_Witness ==
    /\ pc = "exit"
    /\ exit_status = 0
    /\ Len(DocumentChildren(figma_data)) = 3
    /\ Len(files[OUTPUT_FILE.pyStr]) = 2
    /\ IsKept(files[OUTPUT_FILE.pyStr][1])
    /\ files[OUTPUT_FILE.pyStr][1]["type"] # files[OUTPUT_FILE.pyStr][2]["type"]

\* C8: with fewer than two arguments the run prints the usage message and ends
\* with exit status 1, sends no request and writes no file; with two arguments
\* the output path is prismforge_simplified.json, with three it is the third.
C8_UsageAndOutputPath ==
    /\ Len(argv) < 3 =>
          /\ requests = <<>>
          /\ files = EmptyDict
          /\ pc \in {"start", "exit"}
          /\ pc = "exit" => exit_status = 1 /\ stdout = <<UsageLine>>
    /\ (Len(argv) = 3 /\ pc # "start") => OUTPUT_FILE = Str("prismforge_simplified.json")
    /\ (Len(argv) = 4 /\ pc # "start") => OUTPUT_FILE = argv[4]
    /\ DOMAIN files \subseteq
          IF Len(argv) = 3 THEN {"prismforge_simplified.json"}
          ELSE IF Len(argv) = 4 THEN {argv[4].pyStr}
          ELSE IF Len(argv) < 3 THEN {}
          ELSE DOMAIN files

C8_Witness ==
    /\ pc = "exit"
    /\ Len(argv) = 2
    /\ exit_status = 1
    /\ stdout = <<UsageLine>>
    /\ requests = <<>>
    /\ files = EmptyDict

====
